---- MODULE Spec2Model ----
(***************************************************************************)
(* State-machine model of the NFT minting page (src/pages/index.js): the   *)
(* wallet connector (getInjectedWallets, handleConnect, connectToWallet),  *)
(* the image picker (handleImageUpload, handleDrop, handleRemoveImage) and *)
(* the mint orchestrator (validateForm, handleMint); and of the two API    *)
(* routes behind it, the file proxy and the metadata proxy, which have a   *)
(* specification of their own (ProxySpec).                                 *)
(*                                                                         *)
(* An action is one run-to-completion segment of a handler: the code from  *)
(* the event (or from the resumption of an await) up to the next await,    *)
(* together with the React state updates it batches.  The closure of an    *)
(* async handler keeps the state values of the render it was created in.   *)
(* State that no handler reads is left out: ipfsHash, which handleMint      *)
(* writes and only the markup shows, and the DOM value of the file input.  *)
(*                                                                         *)
(* The events follow the markup: the connect button exists while           *)
(* isConnected is false, the form with its fields and its drop zone exists *)
(* while isConnected is true.  A submit event is taken to reach handleMint *)
(* whenever the form exists, whether or not the submit button is disabled: *)
(* the guards of the handler decide what a submission does.                *)
(***************************************************************************)
EXTENDS Integers, Sequences, FiniteSets, Bags, TLC

----------------------------------------------------------------------------
(* Bounds of the model *)

\* executions of handleMint past its guards and not yet finished
MaxRuns == 2

\* executions of connectToWallet not yet finished
MaxAttempts == 2

----------------------------------------------------------------------------
(* Values *)

\* JavaScript null (selectedProvider, selectedImage, imagePreview)
Null == "null"

\* Text typed into a form field, as a sequence of characters
TextValues == { <<>>, <<" ">>, <<"A">> }
AttrValues == { <<>>, <<"C">> }

IsSpace(c) == c \in {" ", "\t", "\n"}

\* String.prototype.trim: drop leading and trailing white space
RECURSIVE TrimStart(_)
TrimStart(s) ==
  IF s # <<>> /\ IsSpace(Head(s)) THEN TrimStart(Tail(s)) ELSE s

RECURSIVE TrimEnd(_)
TrimEnd(s) ==
  IF s # <<>> /\ IsSpace(s[Len(s)]) THEN TrimEnd(SubSeq(s, 1, Len(s) - 1)) ELSE s

trim(s) == TrimEnd(TrimStart(s))

\* truthiness of a JavaScript string
Truthy(s) == s # <<>>

EmptyForm ==
  [name |-> <<>>, description |-> <<>>, attr1Name |-> <<>>, attr1Value |-> <<>>]

\* The files the user can offer, by name: size in bytes and MIME type
MaxFileSize == 10 * 1024 * 1024

FileInfo ==
  [f \in {"art.png", "big.png", "big.txt"} |->
     CASE f = "art.png" -> [size |-> 10 * 1024 * 1024,     type |-> <<"image", "png">>]
       [] f = "big.png" -> [size |-> 10 * 1024 * 1024 + 1, type |-> <<"image", "png">>]
       [] f = "big.txt" -> [size |-> 11 * 1024 * 1024,     type |-> <<"text", "plain">>]]

Files == DOMAIN FileInfo

\* result of FileReader.readAsDataURL
DataURL(f) == "data:" \o f

\* content identifiers the file proxy and the metadata proxy can return
ImageCIDs == {"CID_IMG"}
MetaCIDs == {"CID_META", "CID_IMG"}

\* hashes a submitted transaction can have
TxHashes == {"0xT1"}

ipfsUrl(cid) == "ipfs://" \o cid

----------------------------------------------------------------------------
(* Injected wallet providers *)

Provider(id, mm, ph, cb) ==
  [id |-> id, isMetaMask |-> mm, isPhantom |-> ph, isCoinbaseWallet |-> cb]

\* MetaMask; Phantom, which also answers to isMetaMask; a provider of no known
\* vendor
MM == Provider("MM", TRUE, FALSE, FALSE)
PH == Provider("PH", TRUE, TRUE, FALSE)
XX == Provider("XX", FALSE, FALSE, FALSE)

\* window.ethereum: absent, one provider object, or an object with .providers
Ethereum(present, self, hasProviders, providers) ==
  [present |-> present, self |-> self,
   hasProviders |-> hasProviders, providers |-> providers]

Environments ==
  { Ethereum(FALSE, XX, FALSE, <<>>),
    Ethereum(TRUE, XX, FALSE, <<>>),
    Ethereum(TRUE, MM, FALSE, <<>>),
    Ethereum(TRUE, MM, TRUE, <<MM, PH>>) }

\* the accounts a provider can hand out
AccountsOf(p) ==
  CASE p = "MM" -> {"0xM1"}
    [] p = "PH" -> {"0xP1"}
    [] OTHER    -> {}

\* the balance of an account, in units of 10^-5 ETH
BalanceOf(a) ==
  CASE a = "0xM1" -> 12346
    [] a = "0xP1" -> 250004
    [] OTHER      -> 7

\* Number(formatEther(bal)).toFixed(4): the balance in units of 10^-4 ETH
formatBalance(bal) == (bal + 5) \div 10

WalletsOfProvider(p) ==
  (IF p.isMetaMask THEN <<[name |-> "MetaMask", provider |-> p.id]>> ELSE <<>>)
  \o (IF p.isPhantom THEN <<[name |-> "Phantom", provider |-> p.id]>> ELSE <<>>)
  \o (IF p.isCoinbaseWallet
        THEN <<[name |-> "Coinbase Wallet", provider |-> p.id]>> ELSE <<>>)

RECURSIVE WalletsOfProviders(_)
WalletsOfProviders(ps) ==
  IF ps = <<>> THEN <<>>
  ELSE WalletsOfProvider(Head(ps)) \o WalletsOfProviders(Tail(ps))

getInjectedWallets(eth) ==
  IF ~eth.present THEN <<>>
  ELSE IF eth.hasProviders THEN WalletsOfProviders(eth.providers)
  ELSE WalletsOfProvider(eth.self)

----------------------------------------------------------------------------
(* State *)

VARIABLES
  ethereum,          \* window.ethereum of this page load
  isConnected, walletAddress, balance, selectedProvider,
  selectedImage, imagePreview,
  isMinting, success, txHash,
  form,
  showWalletSelect, availableWallets,
  attempts,          \* bag of the executions of connectToWallet suspended at an await
  reads,             \* files with a FileReader load that has not fired yet
  runs,              \* the executions of handleMint suspended at an await
  lastTx,            \* hash of the transaction of the latest run, "" if none yet
  alert,             \* the alert() shown by the last step, "" if none
  requests,          \* the requests the two API routes have received, in order of arrival
  tmpFiles           \* the upload files formidable keeps on disk, named by their request

walletVars == <<isConnected, walletAddress, balance, selectedProvider>>
modalVars  == <<showWalletSelect, availableWallets>>
imageVars  == <<selectedImage, imagePreview, reads>>
resultVars == <<success, txHash>>
connVars   == <<attempts>>
mintVars   == <<isMinting, runs, lastTx>>
serverVars == <<requests, tmpFiles>>

vars == <<ethereum, isConnected, walletAddress, balance, selectedProvider,
          selectedImage, imagePreview, isMinting, success, txHash,
          form, showWalletSelect, availableWallets, attempts, reads,
          runs, lastTx, alert, requests, tmpFiles>>

Init ==
  /\ ethereum \in Environments
  /\ isConnected = FALSE
  /\ walletAddress = ""
  /\ balance = <<>>
  /\ selectedProvider = Null
  /\ selectedImage = Null
  /\ imagePreview = Null
  /\ isMinting = FALSE
  /\ success = FALSE
  /\ txHash = ""
  /\ form = EmptyForm
  /\ showWalletSelect = FALSE
  /\ availableWallets = <<>>
  /\ attempts = EmptyBag
  /\ reads = {}
  /\ runs = <<>>
  /\ lastTx = ""
  /\ alert = ""
  /\ requests = <<>>
  /\ tmpFiles = {}

\* the sequence without its i-th element
Remove(seq, i) == SubSeq(seq, 1, i - 1) \o SubSeq(seq, i + 1, Len(seq))

\* a step that shows no alert
Quiet == alert' = ""

\* a step that shows an alert
Alert(msg) == alert' = msg

----------------------------------------------------------------------------
(* Wallet connector *)

\* connectToWallet up to its first await: eth_requestAccounts is sent
connectToWallet(p) ==
  /\ BagCardinality(attempts) < MaxAttempts
  /\ attempts' = attempts (+) SetToBag({[provider |-> p, pc |-> "accounts", address |-> ""]})
  /\ Quiet
  /\ UNCHANGED <<walletVars, imageVars, resultVars, mintVars, form>>

\* handleConnect as it would be without the selection branch: the first
\* discovered wallet is connected whenever one is found
handleConnectFirstFound ==
  /\ ~isConnected
  /\ LET wallets == getInjectedWallets(ethereum) IN
       IF Len(wallets) = 0
         THEN /\ Alert("No EVM wallet found. Please install MetaMask or another wallet.")
              /\ UNCHANGED <<walletVars, modalVars, imageVars, resultVars,
                             mintVars, form, connVars>>
         ELSE /\ connectToWallet(wallets[1].provider)
              /\ UNCHANGED modalVars
  /\ UNCHANGED <<serverVars, ethereum>>

handleConnect ==
  /\ ~isConnected
  /\ LET wallets == getInjectedWallets(ethereum) IN
       IF Len(wallets) = 0
         THEN /\ Alert("No EVM wallet found. Please install MetaMask or another wallet.")
              /\ UNCHANGED <<walletVars, modalVars, imageVars, resultVars,
                             mintVars, form, connVars>>
       ELSE IF Len(wallets) = 1
         THEN /\ connectToWallet(wallets[1].provider)
              /\ UNCHANGED modalVars
       ELSE /\ availableWallets' = wallets
            /\ showWalletSelect' = TRUE
            /\ Quiet
            /\ UNCHANGED <<walletVars, imageVars, resultVars, mintVars, form,
                           connVars>>
  /\ UNCHANGED <<serverVars, ethereum>>

\* a wallet button of the selection modal
PickWallet ==
  /\ showWalletSelect
  /\ \E i \in 1..Len(availableWallets) :
       connectToWallet(availableWallets[i].provider)
  /\ UNCHANGED <<serverVars, modalVars, ethereum>>

\* the Cancel button of the selection modal
CancelSelect ==
  /\ showWalletSelect
  /\ showWalletSelect' = FALSE
  /\ Quiet
  /\ UNCHANGED <<serverVars, ethereum, walletVars, availableWallets, imageVars, resultVars,
                 mintVars, form, connVars>>

\* catch block of connectToWallet, entered by the execution t
ConnectFailed(t) ==
  /\ attempts' = attempts (-) SetToBag({t})
  /\ Alert("Failed to connect wallet: ")
  /\ UNCHANGED <<serverVars, ethereum, walletVars, modalVars, imageVars, resultVars,
                 mintVars, form>>

\* await provider.send('eth_requestAccounts') and await signer.getAddress()
\* return (no state is read or written between the two): the session is set
\* and getBalance is sent
AddressResolved ==
  \E t \in BagToSet(attempts) :
    /\ t.pc = "accounts"
    /\ \E a \in AccountsOf(t.provider) :
         /\ walletAddress' = a
         /\ attempts' = (attempts (-) SetToBag({t}))
                          (+) SetToBag({[t EXCEPT !.pc = "balance", !.address = a]})
    /\ isConnected' = TRUE
    /\ selectedProvider' = t.provider
    /\ Quiet
    /\ UNCHANGED <<serverVars, ethereum, balance, modalVars, imageVars, resultVars,
                   mintVars, form>>

\* AccountsRejected as it would be if the session were set before the
\* account request is awaited
AccountsRejectedSessionSet ==
  \E t \in BagToSet(attempts) :
    /\ t.pc = "accounts"
    /\ attempts' = attempts (-) SetToBag({t})
    /\ Alert("Failed to connect wallet: ")
    /\ isConnected' = TRUE
    /\ selectedProvider' = t.provider
    /\ UNCHANGED <<serverVars, ethereum, walletAddress, balance, modalVars, imageVars,
                   resultVars, mintVars, form>>

\* await provider.send('eth_requestAccounts') or await signer.getAddress() throws
AccountsRejected ==
  \E t \in BagToSet(attempts) :
    /\ t.pc = "accounts"
    /\ ConnectFailed(t)

\* await provider.getBalance(address) returns
BalanceResolved ==
  \E t \in BagToSet(attempts) :
    /\ t.pc = "balance"
    /\ balance' = <<formatBalance(BalanceOf(t.address))>>
    /\ showWalletSelect' = FALSE
    /\ attempts' = attempts (-) SetToBag({t})
    /\ Quiet
    /\ UNCHANGED <<serverVars, ethereum, isConnected, walletAddress, selectedProvider,
                   availableWallets, imageVars, resultVars, mintVars, form>>

\* await provider.getBalance(address) throws
BalanceRejected ==
  \E t \in BagToSet(attempts) :
    /\ t.pc = "balance"
    /\ ConnectFailed(t)

----------------------------------------------------------------------------
(* Image picker and form fields *)

\* tooLarge as it would be with the size taken in kilobytes
tooLargeInKilobytes(f) == FileInfo[f].size \div 1024 > MaxFileSize

tooLarge(f) == FileInfo[f].size > MaxFileSize

handleImageUpload(f) ==
  IF tooLarge(f)
    THEN /\ Alert("File size must be less than 10MB")
         /\ UNCHANGED imageVars
    ELSE /\ selectedImage' = f
         /\ reads' = reads \cup {f}
         /\ Quiet
         /\ UNCHANGED imagePreview

\* the drop zone is clicked and a file is chosen in the file dialog
PickFile ==
  /\ isConnected
  /\ ~isMinting
  /\ \E f \in Files : handleImageUpload(f)
  /\ UNCHANGED <<serverVars, ethereum, walletVars, modalVars, resultVars, mintVars, form,
                 connVars>>

startsWithImage(type) == type[1] = "image"

\* files are dropped on the drop zone (dataTransfer.files, possibly empty)
handleDrop ==
  /\ isConnected
  /\ \E files \in {<<>>} \cup {<<f>> : f \in Files} :
       IF isMinting
         THEN Quiet /\ UNCHANGED imageVars
       ELSE IF Len(files) > 0 /\ startsWithImage(FileInfo[files[1]].type)
         THEN handleImageUpload(files[1])
       ELSE Quiet /\ UNCHANGED imageVars
  /\ UNCHANGED <<serverVars, ethereum, walletVars, modalVars, resultVars, mintVars, form,
                 connVars>>

\* reader.onload
ReaderLoad ==
  /\ \E f \in reads :
       /\ imagePreview' = DataURL(f)
       /\ reads' = reads \ {f}
  /\ Quiet
  /\ UNCHANGED <<serverVars, ethereum, walletVars, modalVars, selectedImage, resultVars,
                 mintVars, form, connVars>>

\* the Remove Image button, shown with the preview
handleRemoveImage ==
  /\ isConnected
  /\ imagePreview # Null
  /\ selectedImage' = Null
  /\ imagePreview' = Null
  /\ Quiet
  /\ UNCHANGED <<serverVars, ethereum, walletVars, modalVars, reads, resultVars, mintVars,
                 form, connVars>>

handleInputChange ==
  /\ isConnected
  /\ \/ \E v \in TextValues : form' = [form EXCEPT !.name = v]
     \/ \E v \in TextValues : form' = [form EXCEPT !.description = v]
     \/ \E v \in AttrValues : form' = [form EXCEPT !.attr1Name = v]
     \/ \E v \in AttrValues : form' = [form EXCEPT !.attr1Value = v]
  /\ form' # form
  /\ Quiet
  /\ UNCHANGED <<serverVars, ethereum, walletVars, modalVars, imageVars, resultVars,
                 mintVars, connVars>>

----------------------------------------------------------------------------
(* Mint orchestrator *)

\* validateForm as it would be without trim()
validateFormUntrimmed(fm, image) ==
  /\ Truthy(fm.name)
  /\ Truthy(fm.description)
  /\ image # Null

validateForm(fm, image) ==
  /\ Truthy(trim(fm.name))
  /\ Truthy(trim(fm.description))
  /\ image # Null

\* the first guard as it would be without the isMinting test
mintRejectedFormOnly == ~validateForm(form, selectedImage)

\* first guard of handleMint: the submission is dropped silently
mintRejected == ~validateForm(form, selectedImage) \/ isMinting

\* second guard of handleMint: no wallet session
walletMissing == ~isConnected \/ walletAddress = ""

\* a call that a run has issued and is awaiting, and the outcome of a call
Call(kind, arg) == [kind |-> kind, arg |-> arg]

Outcome(kind, ok, val) == [kind |-> kind, ok |-> ok, val |-> val]

NoOutcome == Outcome("none", TRUE, "")

\* the metadata document of step 2
Metadata(fm, imageUrl) ==
  [name |-> fm.name,
   description |-> fm.description,
   image |-> imageUrl,
   attributes |-> IF Truthy(fm.attr1Name) /\ Truthy(fm.attr1Value)
                    THEN <<[trait_type |-> fm.attr1Name, value |-> fm.attr1Value]>>
                    ELSE <<>>]

\* the arguments of contract.mint in step 3
MintArgs(address, metaCID) ==
  [to |-> address, uri |-> ipfsUrl(metaCID)]

\* What a run of handleMint holds: the state values of the render it was
\* submitted from, its locals, the call it awaits (call), the outcome of the
\* call it awaited before (last), the number of contract.mint calls it has made
\* and whether it is the latest run.  A captured value is dropped from the
\* record once no later statement of the handler reads it.
NewRun ==
  [pc |-> "image", form |-> form,
   walletAddress |-> walletAddress, selectedProvider |-> selectedProvider,
   tx |-> "", mints |-> 0, latest |-> TRUE,
   call |-> Call("image", selectedImage), last |-> NoOutcome]

Older(rs) == [k \in 1..Len(rs) |-> [rs[k] EXCEPT !.latest = FALSE]]

\* the form is submitted: handleMint up to the image upload request
handleMint ==
  /\ isConnected
  /\ IF mintRejected
       THEN /\ Quiet
            /\ UNCHANGED <<resultVars, mintVars>>
     ELSE IF walletMissing
       THEN /\ Alert("Please connect your wallet first.")
            /\ UNCHANGED <<resultVars, mintVars>>
     ELSE /\ Len(runs) < MaxRuns
          /\ lastTx' = ""
          /\ isMinting' = TRUE
          /\ success' = FALSE
          /\ txHash' = ""
          /\ runs' = Append(Older(runs), NewRun)
          /\ Quiet
  /\ UNCHANGED <<serverVars, ethereum, walletVars, modalVars, imageVars, form, connVars>>

\* MintFailed as it would be without the finally block
MintFailedNoFinally(i) ==
  /\ runs' = Remove(runs, i)
  /\ Alert("Minting failed: ")
  /\ UNCHANGED <<serverVars, ethereum, walletVars, modalVars, imageVars, form, connVars,
                 lastTx, success, txHash, isMinting>>

\* catch and finally blocks of handleMint
MintFailed(i) ==
  /\ runs' = Remove(runs, i)
  /\ Alert("Minting failed: ")
  /\ isMinting' = FALSE
  /\ UNCHANGED <<serverVars, ethereum, walletVars, modalVars, imageVars, form, connVars,
                 lastTx, success, txHash>>

\* the file proxy answers 2xx with a content identifier: step 2 is sent
ImagePinned ==
  /\ \E i \in 1..Len(runs) : \E cid \in ImageCIDs :
       /\ runs[i].pc = "image"
       /\ runs' = [runs EXCEPT
            ![i].pc = "meta",
            ![i].form = EmptyForm,
            ![i].last = Outcome("image", TRUE, cid),
            ![i].call = Call("meta", Metadata(runs[i].form, ipfsUrl(cid)))]
  /\ Quiet
  /\ UNCHANGED <<serverVars, ethereum, walletVars, modalVars, imageVars, form, connVars,
                 isMinting, lastTx, success, txHash>>

\* ImageFailed as it would be without the test of imageRes.ok: the run goes
\* on to step 2 with the identifier missing from the error body
ImageFailedUnchecked ==
  /\ \E i \in 1..Len(runs) :
       /\ runs[i].pc = "image"
       /\ runs' = [runs EXCEPT
            ![i].pc = "meta",
            ![i].form = EmptyForm,
            ![i].last = Outcome("image", FALSE, "undefined"),
            ![i].call = Call("meta", Metadata(runs[i].form, ipfsUrl("undefined")))]
  /\ Quiet
  /\ UNCHANGED <<serverVars, ethereum, walletVars, modalVars, imageVars, form, connVars,
                 isMinting, lastTx, success, txHash>>

\* the file proxy answers non-2xx, or the request or its body parse throws
ImageFailed ==
  \E i \in 1..Len(runs) :
    /\ runs[i].pc = "image"
    /\ MintFailed(i)

\* the metadata proxy answers 2xx: the contract's mint is called
MetadataPinned ==
  /\ \E i \in 1..Len(runs) : \E cid \in MetaCIDs :
       /\ runs[i].pc = "meta"
       /\ IF runs[i].selectedProvider = Null
            THEN MintFailed(i)
            ELSE /\ runs' = [runs EXCEPT
                      ![i].pc = "mint",
                      ![i].walletAddress = "",
                      ![i].selectedProvider = Null,
                      ![i].mints = @ + 1,
                      ![i].last = Outcome("meta", TRUE, cid),
                      ![i].call = Call("mint", MintArgs(runs[i].walletAddress, cid))]
                 /\ Quiet
                 /\ UNCHANGED <<serverVars, ethereum, walletVars, modalVars, imageVars, form,
                                connVars, isMinting, lastTx, success, txHash>>

\* the metadata proxy answers non-2xx, or the request or its body parse throws
MetadataFailed ==
  \E i \in 1..Len(runs) :
    /\ runs[i].pc = "meta"
    /\ MintFailed(i)

\* MintSubmitted as it would be with success declared before tx.wait()
MintSubmittedDeclaresSuccess ==
  /\ \E i \in 1..Len(runs) : \E h \in TxHashes :
       /\ runs[i].pc = "mint"
       /\ txHash' = h
       /\ lastTx' = IF runs[i].latest THEN h ELSE lastTx
       /\ runs' = [runs EXCEPT
            ![i].pc = "wait",
            ![i].tx = h,
            ![i].last = Outcome("mint", TRUE, h),
            ![i].call = Call("wait", h)]
  /\ success' = TRUE
  /\ Quiet
  /\ UNCHANGED <<serverVars, ethereum, walletVars, modalVars, imageVars, form, connVars,
                 isMinting>>

\* contract.mint returns the submitted transaction: its confirmation is awaited
MintSubmitted ==
  /\ \E i \in 1..Len(runs) : \E h \in TxHashes :
       /\ runs[i].pc = "mint"
       /\ txHash' = h
       /\ lastTx' = IF runs[i].latest THEN h ELSE lastTx
       /\ runs' = [runs EXCEPT
            ![i].pc = "wait",
            ![i].tx = h,
            ![i].last = Outcome("mint", TRUE, h),
            ![i].call = Call("wait", h)]
  /\ Quiet
  /\ UNCHANGED <<serverVars, ethereum, walletVars, modalVars, imageVars, form, connVars,
                 isMinting, success>>

\* contract.mint throws (user rejection, insufficient funds, network error)
MintSubmitFailed ==
  \E i \in 1..Len(runs) :
    /\ runs[i].pc = "mint"
    /\ MintFailed(i)

\* MintConfirmed as it would be without the reset of the form
MintConfirmedNoReset ==
  /\ \E i \in 1..Len(runs) :
       /\ runs[i].pc = "wait"
       /\ runs' = Remove(runs, i)
  /\ success' = TRUE
  /\ isMinting' = FALSE
  /\ Quiet
  /\ UNCHANGED <<serverVars, ethereum, walletVars, modalVars, imageVars, form, connVars,
                 lastTx, txHash>>

\* tx.wait() returns: success is declared and the form is reset
MintConfirmed ==
  /\ \E i \in 1..Len(runs) :
       /\ runs[i].pc = "wait"
       /\ runs' = Remove(runs, i)
  /\ success' = TRUE
  /\ form' = EmptyForm
  /\ selectedImage' = Null
  /\ imagePreview' = Null
  /\ isMinting' = FALSE
  /\ Quiet
  /\ UNCHANGED <<serverVars, ethereum, walletVars, modalVars, reads, connVars,
                 lastTx, txHash>>

\* tx.wait() throws (the transaction reverted or was dropped)
MintConfirmFailed ==
  \E i \in 1..Len(runs) :
    /\ runs[i].pc = "wait"
    /\ MintFailed(i)

----------------------------------------------------------------------------
(* Specification *)

Next ==
  \/ handleConnect
  \/ PickWallet
  \/ CancelSelect
  \/ AddressResolved
  \/ AccountsRejected
  \/ BalanceResolved
  \/ BalanceRejected
  \/ PickFile
  \/ handleDrop
  \/ ReaderLoad
  \/ handleRemoveImage
  \/ handleInputChange
  \/ handleMint
  \/ ImagePinned
  \/ ImageFailed
  \/ MetadataPinned
  \/ MetadataFailed
  \/ MintSubmitted
  \/ MintSubmitFailed
  \/ MintConfirmed
  \/ MintConfirmFailed

Spec == Init /\ [][Next]_vars

----------------------------------------------------------------------------
(* The API routes: the file proxy (src/pages/api/pinata-upload.js) and the *)
(* metadata proxy (pages/api/pinata-metadata.js).  Each request runs its   *)
(* own execution of the route's handler; an action is the segment of one   *)
(* execution from its start, or from the resumption of an await, to the    *)
(* next await or to the end.  The fetch and the response.json() that       *)
(* follows it are taken as one await: the handler touches nothing between  *)
(* them.  The page variables do not change in these steps.                 *)

\* requests the two routes receive
MaxRequests == 2

Methods == {"POST", "GET"}

\* Bodies of a request to the file proxy: a multipart body whose field
\* "file" holds a file within maxFileSize, one without a field "file", and
\* one whose file exceeds maxFileSize
FileBodies == {"file", "nofile", "oversized"}

\* Bodies of a request to the metadata proxy as the body parser hands them
\* over in req.body: a JSON object, and JSON null
MetaBodies == {"object", "null"}

\* What the pinning service answers to a forward, as response.ok and the
\* parsed JSON body
PinataAnswers ==
  { [ok |-> TRUE,  data |-> [IpfsHash |-> "CID_IMG"]],
    [ok |-> FALSE, data |-> [error |-> "Invalid API key"]],
    [ok |-> FALSE, data |-> [message |-> "Rate limited"]] }

\* messages of the errors fetch or response.json() can reject with
ThrownMessages == {"fetch failed"}

\* data.error of a parsed body, "" standing for undefined
Field(data, name) == IF name \in DOMAIN data THEN data[name] ELSE ""

\* a || b on strings
OrElse(a, b) == IF a # "" THEN a ELSE b

pageVars == <<ethereum, walletVars, modalVars, imageVars, resultVars,
              connVars, mintVars, form, alert>>

\* a request as it arrives: nothing awaited, forwarded, answered or responded
NewRequest(route, method, body) ==
  [route |-> route, method |-> method, body |-> body, pc |-> "start",
   forwards |-> 0, answers |-> <<>>, responses |-> <<>>]

\* res.status(status).json(body), which ends the execution
Respond(r, status, body) ==
  [r EXCEPT !.pc = "done",
            !.responses = Append(@, [status |-> status, body |-> body])]

\* the fetch to the pinning service, awaited
Forward(r) == [r EXCEPT !.pc = "fetch", !.forwards = @ + 1]

\* the answer of the pinning service as the execution has seen it
Answered(r, a) ==
  [r EXCEPT !.answers = Append(@, [thrown |-> FALSE, ok |-> a.ok, data |-> a.data])]

Threw(r, m) ==
  [r EXCEPT !.answers = Append(@, [thrown |-> TRUE, message |-> m])]

\* the handler of the file proxy with its method check left out
uploadHandlerAnyMethod ==
  /\ Len(requests) < MaxRequests
  /\ \E method \in Methods, body \in FileBodies :
       requests' = Append(requests,
                     [NewRequest("upload", method, body) EXCEPT !.pc = "parse"])
  /\ UNCHANGED <<tmpFiles, pageVars>>

\* the handler of the file proxy from the arrival of a request to
\* await form.parse(req)
uploadHandler ==
  /\ Len(requests) < MaxRequests
  /\ \E method \in Methods, body \in FileBodies :
       LET req == NewRequest("upload", method, body) IN
         requests' = Append(requests,
           IF method # "POST"
             THEN Respond(req, 405, [error |-> "Method not allowed"])
             ELSE [req EXCEPT !.pc = "parse"])
  /\ UNCHANGED <<tmpFiles, pageVars>>

\* form.parse resolves: formidable has written the file of the field "file",
\* if there is one, to a temporary file, and the handler forwards it
uploadParsed ==
  /\ \E i \in 1..Len(requests) :
       /\ requests[i].pc = "parse"
       /\ requests[i].body # "oversized"
       /\ IF requests[i].body = "nofile"
            THEN /\ requests' = [requests EXCEPT ![i] =
                                   Respond(@, 400, [error |-> "No file provided"])]
                 /\ UNCHANGED tmpFiles
            ELSE /\ requests' = [requests EXCEPT ![i] = Forward(@)]
                 /\ tmpFiles' = tmpFiles \cup {i}
  /\ UNCHANGED pageVars

\* form.parse rejects: the file exceeds maxFileSize; formidable removes what
\* it had written
uploadParseFailed ==
  /\ \E i \in 1..Len(requests) :
       /\ requests[i].pc = "parse"
       /\ requests[i].body = "oversized"
       /\ requests' = [requests EXCEPT ![i] =
                         Respond(@, 500, [error |-> "maxFileSize exceeded"])]
  /\ UNCHANGED <<tmpFiles, pageVars>>

\* the file proxy from the answer of the pinning service to its end, as it
\* would be without the check of response.ok
uploadAnsweredUnchecked ==
  /\ \E i \in 1..Len(requests), a \in PinataAnswers :
       /\ requests[i].route = "upload"
       /\ requests[i].pc = "fetch"
       /\ requests' = [requests EXCEPT ![i] = Respond(Answered(@, a), 200, a.data)]
       /\ tmpFiles' = tmpFiles \ {i}
  /\ UNCHANGED pageVars

\* the file proxy from the answer of the pinning service to its end
uploadAnswered ==
  /\ \E i \in 1..Len(requests), a \in PinataAnswers :
       /\ requests[i].route = "upload"
       /\ requests[i].pc = "fetch"
       /\ IF ~a.ok
            THEN /\ requests' = [requests EXCEPT ![i] =
                       Respond(Answered(@, a), 500,
                         [error |-> OrElse(Field(a.data, "error"),
                                           "Failed to upload to Pinata")])]
                 /\ UNCHANGED tmpFiles
            ELSE /\ tmpFiles' = tmpFiles \ {i}
                 /\ requests' = [requests EXCEPT ![i] =
                       Respond(Answered(@, a), 200, a.data)]
  /\ UNCHANGED pageVars

\* the fetch of the file proxy, or the parsing of its answer, rejects
uploadThrew ==
  /\ \E i \in 1..Len(requests), m \in ThrownMessages :
       /\ requests[i].route = "upload"
       /\ requests[i].pc = "fetch"
       /\ requests' = [requests EXCEPT ![i] =
                         Respond(Threw(@, m), 500, [error |-> m])]
  /\ UNCHANGED <<tmpFiles, pageVars>>

\* the handler of the metadata proxy from the arrival of a request to
\* await fetch; metadata.name throws on a null body
metadataHandler ==
  /\ Len(requests) < MaxRequests
  /\ \E method \in Methods, body \in MetaBodies :
       LET req == NewRequest("metadata", method, body) IN
         requests' = Append(requests,
           IF method # "POST"
             THEN Respond(req, 405, [error |-> "Method not allowed"])
           ELSE IF body = "null"
             THEN Respond(req, 500,
                    [error |-> "Cannot read properties of null (reading 'name')"])
           ELSE Forward(req))
  /\ UNCHANGED <<tmpFiles, pageVars>>

\* the metadata proxy from the answer of the pinning service to its end
metadataAnswered ==
  /\ \E i \in 1..Len(requests), a \in PinataAnswers :
       /\ requests[i].route = "metadata"
       /\ requests[i].pc = "fetch"
       /\ requests' = [requests EXCEPT ![i] =
            IF ~a.ok
              THEN Respond(Answered(@, a), 500,
                     [error |-> OrElse(Field(a.data, "error"),
                                       "Failed to upload metadata to Pinata")])
              ELSE Respond(Answered(@, a), 200, a.data)]
  /\ UNCHANGED <<tmpFiles, pageVars>>

\* the fetch of the metadata proxy, or the parsing of its answer, rejects
metadataThrew ==
  /\ \E i \in 1..Len(requests), m \in ThrownMessages :
       /\ requests[i].route = "metadata"
       /\ requests[i].pc = "fetch"
       /\ requests' = [requests EXCEPT ![i] =
                         Respond(Threw(@, m), 500, [error |-> m])]
  /\ UNCHANGED <<tmpFiles, pageVars>>

ProxyNext ==
  \/ uploadHandler
  \/ uploadParsed
  \/ uploadParseFailed
  \/ uploadAnswered
  \/ uploadThrew
  \/ metadataHandler
  \/ metadataAnswered
  \/ metadataThrew

ProxySpec == Init /\ [][ProxyNext]_vars

----------------------------------------------------------------------------
(* Properties of the mint orchestrator *)

\* a string that is empty or holds white space only
Blank(s) == \A k \in 1..Len(s) : IsSpace(s[k])

\* the state of a submission that must not proceed
InvalidSubmission ==
  \/ Blank(form.name)
  \/ Blank(form.description)
  \/ selectedImage = Null
  \/ ~isConnected
  \/ walletAddress = ""

\* the runs that a step has started: the calls of these runs are the only
\* network calls a submission makes
Started(before, after) ==
  { i \in 1..Len(after) :
      /\ after[i].call.kind = "image"
      /\ ~ \E j \in 1..Len(before) : before[j].call = after[i].call }

\* C1: while the name or the description is empty or white space only, or no
\* image is selected, or no wallet session is active (isConnected false or
\* walletAddress empty), a submission performs no network call: no step starts
\* a run of the pipeline, so neither proxy nor the contract is called for it,
\* and isMinting stays false.
C1_InvalidSubmissionMakesNoCall ==
  [][(runs' # runs \/ isMinting' # isMinting) /\ InvalidSubmission =>
       /\ Started(runs, runs') = {}
       /\ Len(runs') <= Len(runs)
       /\ (~isMinting => ~isMinting')]_vars

\* C1: the form is there with a name of white space only and everything
\* else a submission needs; nothing is in flight and isMinting is false
C1_Witness ==
  /\ isConnected
  /\ walletAddress # ""
  /\ form.name = <<" ">>
  /\ ~Blank(form.description)
  /\ selectedImage # Null
  /\ InvalidSubmission
  /\ runs = <<>>
  /\ ~isMinting

\* C2: the pipeline is exclusive with itself: at most one run is in flight
\* at any time, and while one is in flight isMinting is set, so that a
\* submission made meanwhile is dropped by the first guard of handleMint and
\* issues no second upload or mint call.
C2_PipelineExclusive ==
  /\ Len(runs) <= 1
  /\ (runs # <<>> => isMinting /\ mintRejected)

\* C2: a run awaits its confirmation while the form would pass every other
\* guard of a submission
C2_Witness ==
  /\ Len(runs) = 1
  /\ runs[1].pc = "wait"
  /\ validateForm(form, selectedImage)
  /\ ~walletMissing

\* C3: abort on first failure: a run that awaits the metadata call has had
\* its file call answered with success, a run that awaits the mint call has
\* had its metadata call answered with success, the confirmation is awaited
\* only for a transaction that was submitted, and no run in flight has seen
\* a failed call: a failure ends the run before its next call.
C3_AbortOnFirstFailure ==
  \A i \in 1..Len(runs) :
    LET r == runs[i] IN
      /\ r.last.ok
      /\ r.call.kind = "image" => r.last = NoOutcome /\ r.mints = 0
      /\ r.call.kind = "meta"  => r.last.kind = "image" /\ r.mints = 0
      /\ r.call.kind = "mint"  => r.last.kind = "meta"
      /\ r.call.kind = "wait"  => r.last.kind = "mint"

\* C3: a run has failed before its transaction was submitted and nothing of
\* it is left in flight
C3_Witness ==
  /\ alert = "Minting failed: "
  /\ runs = <<>>
  /\ lastTx = ""
  /\ txHash = ""

\* C4: a step in which a run fails, at whichever call, leaves isMinting
\* false, the form fields and the selected image as they were before the
\* failure and success false; a submission of the retained form is no longer
\* dropped by the first guard.
C4_FailureKeepsForm ==
  [][alert' = "Minting failed: " =>
       /\ isMinting' = FALSE
       /\ form' = form
       /\ selectedImage' = selectedImage
       /\ success' = FALSE
       /\ (validateForm(form, selectedImage) => ~mintRejected')]_vars

\* C4: after a failed run the filled form is still there and a submission
\* passes both guards
C4_Witness ==
  /\ alert = "Minting failed: "
  /\ ~isMinting
  /\ ~success
  /\ form.attr1Name # <<>>
  /\ ~mintRejected
  /\ ~walletMissing

\* C5: the step that declares success (the confirmation of the submitted
\* transaction has returned) leaves name, description, attribute name and
\* attribute value empty, the selected image and its preview cleared and
\* isMinting false.
C5_SuccessResetsForm ==
  [][~success /\ success' =>
       /\ form' = EmptyForm
       /\ selectedImage' = Null
       /\ imagePreview' = Null
       /\ isMinting' = FALSE]_vars

\* C5: a run has succeeded in full and the form is empty
C5_Witness ==
  /\ success
  /\ txHash # ""
  /\ form = EmptyForm
  /\ selectedImage = Null
  /\ imagePreview = Null
  /\ ~isMinting
  /\ runs = <<>>

\* a file above the limit of 10 MB
Oversized(f) == f # Null /\ FileInfo[f].size > 10 * 1024 * 1024

\* C6: a file above 10 MB (10*1024*1024 bytes) offered through the file
\* dialog or by drag and drop is rejected on the client: the step that shows
\* the size notice leaves the selected image as it was and starts no call;
\* so the selected image is absent or at most 10 MB after every step, and no
\* file above 10 MB is the argument of a call to the file proxy.
C6_OversizedFileRejected ==
  [][/\ alert' = "File size must be less than 10MB" =>
          selectedImage' = selectedImage /\ runs' = runs
     /\ ~Oversized(selectedImage')
     /\ \A i \in 1..Len(runs') :
          runs'[i].call.kind = "image" => ~Oversized(runs'[i].call.arg)]_vars

\* C6: a file above the limit has been refused while a file of exactly
\* 10 MB stays selected
C6_Witness ==
  /\ alert = "File size must be less than 10MB"
  /\ selectedImage = "art.png"
  /\ FileInfo[selectedImage].size = 10 * 1024 * 1024

\* the references a run has built from the identifiers the proxies returned:
\* the metadata document names the image as ipfs://I, the contract's mint is
\* called once, with the token reference ipfs://M
References(r) ==
  /\ r.call.kind = "meta" => /\ r.last.kind = "image"
                             /\ r.call.arg.image = "ipfs://" \o r.last.val
  /\ r.call.kind = "mint" => /\ r.last.kind = "meta"
                             /\ r.call.arg.uri = "ipfs://" \o r.last.val
                             /\ r.mints = 1
  /\ r.call.kind = "wait" => r.mints = 1

\* the runs whose mint call is made by this step
Minting(before, after) ==
  { i \in 1..Len(before) :
      /\ Len(after) = Len(before)
      /\ before[i].call.kind = "meta"
      /\ after[i].call.kind = "mint" }

\* C7: when the file proxy returns I and the metadata proxy returns M in one
\* run, the metadata document names the image as ipfs://I, and the contract's
\* mint is called exactly once in that run, with the token reference ipfs://M
\* and with the recipient equal to the connected wallet address (walletAddress
\* as it is when the call is made).
C7_RecipientIsConnectedAddress ==
  [][runs' # runs =>
          /\ \A i \in 1..Len(runs') : References(runs'[i])
          /\ \A i \in Minting(runs, runs') :
               runs'[i].call.arg.to = walletAddress]_vars

\* What handleMint does guarantee about the call: the references are as C7
\* states them, and the recipient is the wallet address that was connected
\* when the run was submitted; the run keeps that address from its submission
\* to its mint call, whatever walletAddress has become meanwhile.
C7_RecipientIsAddressAtSubmission ==
  [][runs' # runs =>
          /\ \A i \in 1..Len(runs') : References(runs'[i])
          /\ \A i \in Started(runs, runs') :
               isConnected /\ runs'[i].walletAddress = walletAddress
          /\ Len(runs') = Len(runs) =>
               \A i \in 1..Len(runs) :
                 runs'[i].call.kind \in {"image", "meta"} =>
                   runs'[i].walletAddress = runs[i].walletAddress
          /\ \A i \in Minting(runs, runs') :
               /\ runs[i].walletAddress # ""
               /\ runs'[i].call.arg.to = runs[i].walletAddress]_vars

\* C7: mint is called with ipfs://CID_META for the address of the run's
\* submission, while a connect attempt that completed during the run has
\* made another wallet the connected one
C7_Witness ==
  \E i \in 1..Len(runs) :
    /\ runs[i].call.kind = "mint"
    /\ runs[i].call.arg.uri = "ipfs://CID_META"
    /\ runs[i].call.arg.to = "0xM1"
    /\ walletAddress = "0xP1"

\* C8: success is declared only after confirmation: the step that sets
\* success ends a run that awaited the confirmation of the transaction it had
\* submitted, and the hash shown is that transaction's; whenever success is
\* set, txHash is the non-empty hash of the transaction of the latest run;
\* a step in which a run fails, the confirmation included, leaves success
\* unset.
C8_SuccessAfterConfirmation ==
  [][/\ ~success /\ success' =>
          \E i \in 1..Len(runs) :
            /\ runs[i].call = Call("wait", runs[i].tx)
            /\ runs[i].last = Outcome("mint", TRUE, runs[i].tx)
            /\ runs[i].tx # ""
            /\ txHash' = runs[i].tx
            /\ runs' = Remove(runs, i)
     /\ success' => txHash' # "" /\ txHash' = lastTx'
     /\ alert' = "Minting failed: " => ~success']_vars

\* C8: success is shown with the hash of the latest transaction
C8_Witness ==
  /\ success
  /\ txHash = "0xT1"
  /\ lastTx = "0xT1"

----------------------------------------------------------------------------
(* Properties of the wallet connector *)

\* what the connect action discovers
Discovered == getInjectedWallets(ethereum)

\* an account-access request on the provider p
Request(p) == [provider |-> p, pc |-> "accounts", address |-> ""]

\* the account-access requests sent by a step
Requests(before, after) ==
  { t \in BagToSet(after) :
      t.pc = "accounts" /\ CopiesIn(t, after) > CopiesIn(t, before) }

\* the state of the connector: its requests, the session and the prompt
connectorVars == <<attempts, walletVars, modalVars>>

C10_FailedConnectNoSession ==
  [][/\ connectorVars' # connectorVars =>
          /\ Len(Discovered) # 0
          /\ \A t \in BagToSet(attempts) :
               t.pc = "accounts" /\ attempts' = attempts (-) SetToBag({t}) =>
                 /\ alert' = "Failed to connect wallet: "
                 /\ UNCHANGED walletVars
     /\ ~isConnected /\ connectorVars' = connectorVars /\ handleConnect =>
          \/ alert' = "No EVM wallet found. Please install MetaMask or another wallet."
          \/ Len(Discovered) # 0]_vars

\* C10: the only request was rejected and there is no session
C10_Witness ==
  /\ alert = "Failed to connect wallet: "
  /\ attempts = EmptyBag
  /\ ~isConnected
  /\ walletAddress = ""
  /\ selectedProvider = Null
  /\ balance = <<>>

\* C14: an execution of connectToWallet that ends with the failure notice
\* leaves no session behind, the failure of the balance lookup included:
\* when the notice is shown, no execution is in flight and none has ever
\* completed (no balance was ever set), isConnected is false.
C14_FailedConnectLeavesNoSession ==
  alert = "Failed to connect wallet: " /\ attempts = EmptyBag /\ balance = <<>>
    => ~isConnected

\* C14: the only execution has failed at its balance lookup and its session
\* is still there
C14_Witness ==
  /\ alert = "Failed to connect wallet: "
  /\ attempts = EmptyBag
  /\ balance = <<>>
  /\ isConnected
  /\ walletAddress = "0xM1"
  /\ selectedProvider = "MM"
  /\ ~showWalletSelect

\* C15: whenever no execution of connectToWallet is in flight and a session
\* is active, the wallet address, the selected provider and the balance
\* shown come from the same execution: the address is an account of the
\* selected provider and the balance shown is the balance of that address.
C15_SessionFromOneAttempt ==
  attempts = EmptyBag /\ isConnected /\ balance # <<>> =>
    /\ walletAddress \in AccountsOf(selectedProvider)
    /\ balance = <<formatBalance(BalanceOf(walletAddress))>>

\* C15: all executions have returned; the address and the provider are
\* those of the second pick, the balance is that of the first
C15_Witness ==
  /\ attempts = EmptyBag
  /\ isConnected
  /\ walletAddress = "0xP1"
  /\ selectedProvider = "PH"
  /\ balance = <<formatBalance(BalanceOf("0xM1"))>>
  /\ ~showWalletSelect

----------------------------------------------------------------------------
(* Properties of the API routes *)

\* C11: in the file proxy, the temporary file written while the request was
\* parsed is gone once the handler has responded after a forward to the
\* pinning service, whatever the forward did: answered with success,
\* answered with a status that is not 2xx, or thrown.
C11_TempFileRemoved ==
  \A i \in 1..Len(requests) :
    requests[i].route = "upload" /\ requests[i].pc = "done" /\ requests[i].forwards > 0
      => i \notin tmpFiles

\* the file proxy has answered 500 to a request whose forward the pinning
\* service refused, and the temporary file of the request is still on disk
C11_Witness ==
  \E i \in 1..Len(requests) :
    /\ requests[i].route = "upload" /\ requests[i].pc = "done"
    /\ requests[i].forwards = 1
    /\ ~requests[i].answers[1].thrown /\ ~requests[i].answers[1].ok
    /\ requests[i].responses = <<[status |-> 500, body |-> [error |-> "Invalid API key"]]>>
    /\ i \in tmpFiles

\* C12: both proxies accept POST only.  A request whose method is not POST
\* is answered at once, and once only, with status 405 and the error
\* "Method not allowed"; no forward to the pinning service is made for it,
\* its body is never parsed and no temporary file is written for it.
C12_OnlyPostAccepted ==
  \A i \in 1..Len(requests) :
    requests[i].method # "POST" =>
      /\ requests[i].pc = "done"
      /\ requests[i].responses =
           <<[status |-> 405, body |-> [error |-> "Method not allowed"]]>>
      /\ requests[i].forwards = 0
      /\ requests[i].answers = <<>>
      /\ i \notin tmpFiles

\* a GET with a multipart file body has reached the file proxy and a GET
\* with a JSON object the metadata proxy
C12_Witness ==
  /\ Len(requests) = 2
  /\ requests[1].route = "upload" /\ requests[1].method = "GET"
  /\ requests[1].body = "file" /\ requests[1].pc = "done"
  /\ requests[2].route = "metadata" /\ requests[2].method = "GET"
  /\ requests[2].body = "object" /\ requests[2].pc = "done"

\* the response of a finished request follows from what its one forward did:
\* 200 with the JSON body of the pinning service as it came when the service
\* answered with success; 500 with an {error} that carries the error message
\* of the service, when it sent one, or the message of the thrown error,
\* when the service answered with failure or the forward threw
ResponseFollowsUpstream(r) ==
  /\ Len(r.answers) = 1
  /\ Len(r.responses) = 1
  /\ LET a == r.answers[1]
         res == r.responses[1]
     IN  IF a.thrown
           THEN res.status = 500 /\ res.body = [error |-> a.message]
         ELSE IF a.ok
           THEN res.status = 200 /\ res.body = a.data
         ELSE /\ res.status = 500
              /\ DOMAIN res.body = {"error"}
              /\ res.body.error # ""
              /\ Field(a.data, "error") # "" => res.body.error = a.data.error

\* the handler of the request gets as far as its fetch: the file proxy has
\* parsed the body and found a file, the body of the metadata proxy is not null
ReachesForward(r) ==
  IF r.route = "upload" THEN r.body = "file" ELSE r.body # "null"

\* C13 as stated: for every POST either proxy has handled, exactly one
\* forward to the pinning service was made, and the response follows from
\* what the forward did (200 with the upstream body, or 500 with the error).
C13_EveryPostForwardedOnce ==
  \A i \in 1..Len(requests) :
    requests[i].method = "POST" /\ requests[i].pc = "done" =>
      /\ requests[i].forwards = 1
      /\ ResponseFollowsUpstream(requests[i])

\* C13 amended: no POST is forwarded more than once.  A POST that either
\* proxy has handled and whose handler got as far as its fetch was forwarded
\* exactly once, and its response follows from what the forward did.  A POST
\* whose handler did not get that far (file proxy: no file in the body, or
\* the body failed to parse; metadata proxy: null body) was not forwarded at
\* all and was answered once with 400 or 500, never with 200.
C13_PostForwardedAtMostOnce ==
  \A i \in 1..Len(requests) :
    /\ requests[i].forwards <= 1
    /\ requests[i].method = "POST" /\ requests[i].pc = "done" =>
         IF ReachesForward(requests[i])
           THEN /\ requests[i].forwards = 1
                /\ ResponseFollowsUpstream(requests[i])
           ELSE /\ requests[i].forwards = 0
                /\ requests[i].answers = <<>>
                /\ Len(requests[i].responses) = 1
                /\ requests[i].responses[1].status \in {400, 500}

\* the file proxy has answered one POST with the body of the pinning service
\* and another, which held no file, with 400 and no forward
C13_Witness ==
  /\ Len(requests) = 2
  /\ requests[1].route = "upload" /\ requests[1].method = "POST"
  /\ requests[1].forwards = 1
  /\ requests[1].responses = <<[status |-> 200, body |-> [IpfsHash |-> "CID_IMG"]]>>
  /\ requests[2].route = "upload" /\ requests[2].method = "POST"
  /\ requests[2].body = "nofile" /\ requests[2].forwards = 0
  /\ requests[2].responses = <<[status |-> 400, body |-> [error |-> "No file provided"]]>>
====
